---- MODULE Spec2Model ----
(***************************************************************************)
(* A model of the file-backed document store of src/main.go: a Driver      *)
(* keeps one directory per collection under its root directory and one     *)
(* file <name>.json per record.  Write and Delete run under a lock per     *)
(* collection name, Read and ReadAll take no lock.                         *)
(*                                                                         *)
(* Every system call of the code is one step of the calling thread, and    *)
(* os.WriteFile is an open (create or truncate) followed by one write per  *)
(* ChunkLen bytes, so that other threads see the file grow.  Names are     *)
(* single path components or the empty string.                             *)
(***************************************************************************)
EXTENDS Integers, Sequences, FiniteSets, TLC

\* ------------------------------------------------------------------ bounds
MaxCalls == 2
ChunkLen == 2
Writers == 2

\* The threads that call as they like, and the threads of the model: those
\* and the parallel writers.
Callers == {1, 2}
Threads == Callers \cup (1..Writers)

\* The arguments the callers pass.
Collections == {"", "c"}
Resources == {"", "a", "a.json"}
Unserializable == "chan"
Values == {"1", "2"}
Inputs == Values \cup {Unserializable}

None == "none"

\* ------------------------------------------------------------ json, paths

\* json.MarshalIndent(v, "", "\t"), then the '\n' Write appends: the bytes of
\* the record file, or an error for a value json cannot encode.
MarshalIndent(v) ==
    IF v = Unserializable
    THEN [err |-> "json: unsupported type", b |-> <<>>]
    ELSE [err |-> "", b |-> <<"{", v, "}">>]

Serialize(v) == MarshalIndent(v).b \o <<"\n">>

UnmarshalStrict(b) ==
    IF Len(b) = 3 /\ b[1] = "{" /\ b[3] = "}" /\ b[2] \in Values
    THEN [err |-> "", v |-> b[2]]
    ELSE [err |-> "json: syntax error", v |-> "none"]

\* json.Unmarshal(b, &v): one complete json value, white space around it
\* allowed; anything else (no input, a cut value) is a syntax error.
Unmarshal(b) ==
    LET body == IF Len(b) > 0 /\ b[Len(b)] = "\n" THEN SubSeq(b, 1, Len(b) - 1) ELSE b
    IN  IF Len(body) = 3 /\ body[1] = "{" /\ body[3] = "}" /\ body[2] \in Values
        THEN [err |-> "", v |-> body[2]]
        ELSE [err |-> "json: syntax error", v |-> None]

\* filepath.Join of a path below the root: the empty elements are ignored.
Join(collection, resources) ==
    SelectSeq(<<collection, resources>>, LAMBDA s : s # "")

\* path + ".json" of a path below the root.
WithJson(path) ==
    [path EXCEPT ![Len(path)] = path[Len(path)] \o ".json"]

fnlPath(collection, resources) == <<collection, resources \o ".json">>

tmpPathInPlace(collection, resources) == fnlPath(collection, resources)

tmpPath(collection, resources) ==
    <<collection, resources \o ".json" \o ".tmp">>

\* ------------------------------------------------------------------- state
VARIABLES
    root,      \* what is at the root path d.dir: "dir", "file" or "none"
    dirs,      \* the names of the directories in the root directory
    files,     \* <<directory, file name>> -> the bytes of that file
    guard,     \* d.mutex: the thread holding it, or 0
    mutexes,   \* d.mutexes: collection name -> lock
    held,      \* lock -> the thread holding it, or 0
    thr,       \* per thread: the call it runs, its position and its locals
    calls,     \* the number of calls made so far
    hist,      \* history: per record, the values renamed onto its file
               \* since the file was last removed
    job        \* per thread, the Write it is to make: set where the callers
               \* are fixed beforehand, empty where they call as they like

fs == <<root, dirs, files>>
locks == <<guard, mutexes, held>>
history == <<hist, job>>
vars == <<root, dirs, files, guard, mutexes, held, thr, calls, hist, job>>

\* The record names of the callers that are fixed beforehand.
JobResources == {"a", "a.json", "b"}

\* The collections and the record names of the callers of a store with two
\* collections.
Collections2 == {"c", "d"}
Resources2 == {"a", "a.json"}

Keys ==
    ((Collections \cup Collections2) \ {""})
        \X ((Resources \cup JobResources \cup Resources2) \ {""})

\* What os.Stat finds at a path below the root: "dir", "file" or "none".
\* The path <<>> is the root directory itself.
osStat(path) ==
    IF Len(path) = 0 THEN root
    ELSE IF root # "dir" THEN "none"
    ELSE IF Len(path) = 1 THEN (IF path[1] \in dirs THEN "dir" ELSE "none")
    ELSE IF path[1] \in dirs /\ path \in DOMAIN files THEN "file" ELSE "none"

\* stat: os.Stat(path) and, when that does not exist, os.Stat(path + ".json").
\* Nothing below the root is ever named <root>.json.
stat(path) ==
    IF osStat(path) # "none" THEN osStat(path)
    ELSE IF Len(path) = 0 THEN "none"
    ELSE osStat(WithJson(path))

DirExists(collection) == root = "dir" /\ collection \in dirs
FileExists(path) == DirExists(path[1]) /\ path \in DOMAIN files
RecordExists(collection, resources) ==
    /\ collection # "" /\ resources # ""
    /\ FileExists(fnlPath(collection, resources))

Idle ==
    [pc |-> "idle", op |-> None, collection |-> "", resources |-> "", v |-> None,
     mutex |-> 0, b |-> <<>>, n |-> 0, fi |-> None, todo |-> {}, records |-> <<>>,
     err |-> "", out |-> None,
     \* history of a Read: whether the record existed when it was called, the
     \* values it may return (the one stored then and those of the Writes
     \* to the record that ran beside it), whether no such Write ran beside
     \* it, whether the record file was not removed under it
     existed |-> FALSE, cand |-> {}, quiet |-> FALSE, nodel |-> FALSE,
     \* history of a Delete: whether it removed the record file it was called
     \* for; of a ReadAll, quiet: no Write or Delete ran beside it
     removed |-> FALSE]

Running(t) == thr[t].pc \notin {"idle", "done"}
Done(t, op) == thr[t].op = op /\ thr[t].pc = "done"
Last(s) == s[Len(s)]

\* The state New returns in: the root directory exists, empty when New
\* made it, and holding the records an earlier run of the program left when
\* it was there already; the Driver is new, with no lock in its registry.
Fresh ==
    /\ root = "dir"
    /\ guard = 0
    /\ mutexes = << >>
    /\ held = << >>
    /\ thr = [t \in Threads |-> Idle]
    /\ calls = 0

\* The records an earlier run may have left.
Stored == {<<"c", "a">>}

\* The root directory holds some of the records of the set stored, each
\* with the value "1".
Holds(stored) ==
    \E old \in [stored -> {"1", None}] :
        LET ks == {k \in stored : old[k] # None /\ root = "dir"}
        IN  /\ dirs = {k[1] : k \in ks}
            /\ files = [p \in {fnlPath(k[1], k[2]) : k \in ks} |->
                           Serialize(old[CHOOSE k \in ks : fnlPath(k[1], k[2]) = p])]
            /\ hist = [k \in Keys |-> IF k \in ks THEN <<old[k]>> ELSE <<>>]

Init ==
    /\ Fresh
    /\ Holds(Stored)
    /\ job = [t \in Threads |-> <<>>]

\* A call returns: its error ("" for nil) and its result.
Return(t, err, out) ==
    [thr[t] EXCEPT !.pc = "done", !.err = err, !.out = out]

\* The locals of a call are gone when it returns.
NoLocals(r) == [r EXCEPT !.b = <<>>, !.n = 0, !.fi = None]

\* A call that holds its collection lock returns through the deferred Unlock.
ReturnLocked(t, err) ==
    NoLocals([thr[t] EXCEPT !.pc = "unlock", !.err = err])

\* ---------------------------------------------------------------- callers

CanCall(t) ==
    t \in Callers /\ thr[t].pc \in {"idle", "done"} /\ calls < MaxCalls

SameKey(u, collection, resources) ==
    thr[u].collection = collection /\ thr[u].resources = resources

\* Thread t calls a Write or a Delete: the Reads that run beside a Write to
\* their record may return its value, and a ReadAll that runs is not alone.
Beside(t, op, collection, resources, v, new) ==
    [u \in Threads |->
        IF u = t THEN new
        ELSE IF op = "Write" /\ thr[u].op = "Read" /\ Running(u)
                /\ SameKey(u, collection, resources)
        THEN [thr[u] EXCEPT !.cand = @ \cup {v}, !.quiet = FALSE]
        ELSE IF thr[u].op = "ReadAll" /\ Running(u)
        THEN [thr[u] EXCEPT !.quiet = FALSE]
        ELSE thr[u]]

InvokeWrite(t, collection, resources, v) ==
    /\ thr' = Beside(t, "Write", collection, resources, v,
                 [Idle EXCEPT !.pc = "Write", !.op = "Write",
                              !.collection = collection,
                              !.resources = resources, !.v = v])
    /\ calls' = calls + 1
    /\ UNCHANGED <<fs, locks, history>>

CallWrite(t) ==
    \E collection \in Collections, resources \in Resources, v \in Inputs :
        CanCall(t) /\ InvokeWrite(t, collection, resources, v)

WritersOf(collection, resources) ==
    {u \in Threads : thr[u].op = "Write" /\ Running(u)
                     /\ SameKey(u, collection, resources)}

InvokeRead(t, collection, resources) ==
        /\ LET k == <<collection, resources>>
               old == IF k \in Keys /\ hist[k] # <<>>
                      THEN {hist[k][Len(hist[k])]} ELSE {}
               ws == WritersOf(collection, resources)
           IN  thr' = [thr EXCEPT ![t] =
                     [Idle EXCEPT !.pc = "Read", !.op = "Read",
                                  !.collection = collection,
                                  !.resources = resources,
                                  !.existed = RecordExists(collection, resources),
                                  !.cand = old \cup {thr[u].v : u \in ws},
                                  !.quiet = (ws = {}),
                                  !.nodel = TRUE]]
        /\ calls' = calls + 1
        /\ UNCHANGED <<fs, locks, history>>

CallRead(t) ==
    \E collection \in Collections, resources \in Resources :
        CanCall(t) /\ InvokeRead(t, collection, resources)

CallReadAll(t) ==
    \E collection \in Collections :
        /\ CanCall(t)
        /\ thr' = [thr EXCEPT ![t] =
                     [Idle EXCEPT !.pc = "ReadAll", !.op = "ReadAll",
                                  !.collection = collection,
                                  !.quiet = \A u \in Threads \ {t} :
                                      ~(Running(u) /\ thr[u].op \in {"Write", "Delete"})]]
        /\ calls' = calls + 1
        /\ UNCHANGED <<fs, locks, history>>

InvokeDelete(t, collection, resources) ==
    /\ thr' = Beside(t, "Delete", collection, resources, None,
                 [Idle EXCEPT !.pc = "Delete", !.op = "Delete",
                              !.collection = collection,
                              !.resources = resources])
    /\ calls' = calls + 1
    /\ UNCHANGED <<fs, locks, history>>

CallDelete(t) ==
    \E collection \in Collections, resources \in Resources :
        CanCall(t) /\ InvokeDelete(t, collection, resources)

\* ------------------------------------------------------- getOrCreateMutex

\* d.mutex.Lock()
GetMutexLock(t) ==
    /\ thr[t].pc = "getmutex"
    /\ guard = 0
    /\ guard' = t
    /\ thr' = [thr EXCEPT ![t].pc = "registry"]
    /\ UNCHANGED <<fs, mutexes, held, calls, history>>

NewMutex == Cardinality(DOMAIN held) + 1

mutexForFresh(collection) == NewMutex

\* m, ok := d.mutexes[collection]; if !ok { m = &sync.Mutex{} }
mutexFor(collection) ==
    IF collection \in DOMAIN mutexes THEN mutexes[collection] ELSE NewMutex

GetMutexKeepsGuard(t) ==
    /\ thr[t].pc = "registry"
    /\ LET m == mutexFor(thr[t].collection)
       IN  /\ mutexes' = (thr[t].collection :> m) @@ mutexes
           /\ held' = IF m \in DOMAIN held THEN held ELSE (m :> 0) @@ held
           /\ thr' = [thr EXCEPT ![t].pc = "lock", ![t].mutex = m]
    /\ guard' = guard
    /\ UNCHANGED <<fs, calls, history>>

\* The lookup, the insertion and the deferred d.mutex.Unlock().
GetMutex(t) ==
    /\ thr[t].pc = "registry"
    /\ LET m == mutexFor(thr[t].collection)
       IN  /\ mutexes' = (thr[t].collection :> m) @@ mutexes
           /\ held' = IF m \in DOMAIN held THEN held ELSE (m :> 0) @@ held
           /\ thr' = [thr EXCEPT ![t].pc = "lock", ![t].mutex = m]
    /\ guard' = 0
    /\ UNCHANGED <<fs, calls, history>>

\* mutex.Lock()
MutexLock(t) ==
    /\ thr[t].pc = "lock"
    /\ held[thr[t].mutex] = 0
    /\ held' = [held EXCEPT ![thr[t].mutex] = t]
    /\ thr' = [thr EXCEPT ![t].pc = IF thr[t].op = "Write" THEN "mkdir" ELSE "stat"]
    /\ UNCHANGED <<fs, guard, mutexes, calls, history>>

MutexUnlockForgets(t) ==
    /\ thr[t].pc = "unlock"
    /\ thr' = [thr EXCEPT ![t].pc = "done", ![t].mutex = 0]
    /\ UNCHANGED <<fs, locks, calls, history>>

\* defer mutex.Unlock(), and the call returns.
MutexUnlock(t) ==
    /\ thr[t].pc = "unlock"
    /\ held' = [held EXCEPT ![thr[t].mutex] = 0]
    /\ thr' = [thr EXCEPT ![t].pc = "done", ![t].mutex = 0]
    /\ UNCHANGED <<fs, guard, mutexes, calls, history>>

\* ------------------------------------------------------------------ Write

WriteValidationNoName(collection, resources) ==
    IF collection = "" THEN "missing collection - no place to save records"
    ELSE ""

\* The two checks that open Write: the error they return, "" when they pass.
WriteValidation(collection, resources) ==
    IF collection = "" THEN "missing collection - no place to save records"
    ELSE IF resources = "" THEN "missing resources - unable to save record (no name)"
    ELSE ""

WriteValidate(t) ==
    /\ thr[t].pc = "Write"
    /\ LET err == WriteValidation(thr[t].collection, thr[t].resources)
       IN  thr' = [thr EXCEPT ![t] =
                     IF err # "" THEN Return(t, err, None)
                     ELSE [thr[t] EXCEPT !.pc = "getmutex"]]
    /\ UNCHANGED <<fs, locks, calls, history>>

\* os.MkdirAll(dir, 0755) makes the root and the collection directory, and
\* json.MarshalIndent, which touches no shared state, follows in the same step.
\* Below a root path that is a regular file no directory can be made.
WriteMkdirAll(t) ==
    /\ thr[t].pc = "mkdir"
    /\ IF root = "file"
       THEN /\ thr' = [thr EXCEPT ![t] = ReturnLocked(t, "mkdir: not a directory")]
            /\ UNCHANGED <<root, dirs>>
       ELSE /\ root' = "dir"
            /\ dirs' = dirs \cup {thr[t].collection}
            /\ LET m == MarshalIndent(thr[t].v)
               IN  thr' = [thr EXCEPT ![t] =
                             IF m.err # "" THEN ReturnLocked(t, m.err)
                             ELSE [thr[t] EXCEPT !.pc = "open",
                                                 !.b = m.b \o <<"\n">>]]
    /\ UNCHANGED <<files, locks, calls, history>>

\* os.MkdirAll fails (permissions, disk full).
WriteMkdirAllFails(t) ==
    /\ thr[t].pc = "mkdir"
    /\ thr' = [thr EXCEPT ![t] = ReturnLocked(t, "mkdir: input/output error")]
    /\ UNCHANGED <<fs, locks, calls, history>>

\* os.WriteFile(tmpPath, b, 0644) opens the file, creating or truncating it.
WriteFileOpen(t) ==
    /\ thr[t].pc = "open"
    /\ LET tmp == tmpPath(thr[t].collection, thr[t].resources)
       IN  IF DirExists(thr[t].collection)
           THEN /\ files' = (tmp :> <<>>) @@ files
                /\ thr' = [thr EXCEPT ![t].pc = "write", ![t].n = 0]
           ELSE /\ files' = files
                /\ thr' = [thr EXCEPT ![t] =
                             ReturnLocked(t, "open: no such file or directory")]
    /\ UNCHANGED <<root, dirs, locks, calls, history>>

WriteFileWriteShort(t) ==
    /\ thr[t].pc = "write"
    /\ LET tmp == tmpPath(thr[t].collection, thr[t].resources)
           k == IF thr[t].n + ChunkLen < Len(thr[t].b)
                THEN thr[t].n + ChunkLen ELSE Len(thr[t].b)
       IN  /\ files' = IF FileExists(tmp)
                       THEN [files EXCEPT ![tmp] = SubSeq(thr[t].b, 1, k)]
                       ELSE files
           /\ thr' = [thr EXCEPT ![t].n = k, ![t].pc = "rename"]
    /\ UNCHANGED <<root, dirs, locks, calls, history>>

\* One write of os.WriteFile: the next ChunkLen bytes.  The bytes written to
\* a file that was removed since it was opened are in no directory.
WriteFileWrite(t) ==
    /\ thr[t].pc = "write"
    /\ LET tmp == tmpPath(thr[t].collection, thr[t].resources)
           k == IF thr[t].n + ChunkLen < Len(thr[t].b)
                THEN thr[t].n + ChunkLen ELSE Len(thr[t].b)
       IN  /\ files' = IF FileExists(tmp)
                       THEN [files EXCEPT ![tmp] = SubSeq(thr[t].b, 1, k)]
                       ELSE files
           /\ thr' = [thr EXCEPT ![t].n = k,
                                 ![t].pc = IF k = Len(thr[t].b) THEN "rename" ELSE "write"]
    /\ UNCHANGED <<root, dirs, locks, calls, history>>

\* os.WriteFile fails at the open or at a write (permissions, disk full); what
\* was written stays in the temporary file.
WriteFileFails(t) ==
    /\ thr[t].pc \in {"open", "write"}
    /\ thr' = [thr EXCEPT ![t] = ReturnLocked(t, "write: input/output error")]
    /\ UNCHANGED <<fs, locks, calls, history>>

\* os.Rename(tmpPath, fnlPath) replaces the record file in one step.
WriteRename(t) ==
    /\ thr[t].pc = "rename"
    /\ LET tmp == tmpPath(thr[t].collection, thr[t].resources)
           fnl == fnlPath(thr[t].collection, thr[t].resources)
           k == <<thr[t].collection, thr[t].resources>>
       IN  IF FileExists(tmp)
           THEN /\ files' = [p \in (DOMAIN files \ {tmp}) \cup {fnl} |->
                               IF p = fnl THEN files[tmp] ELSE files[p]]
                /\ hist' = IF k \in Keys
                           THEN [hist EXCEPT ![k] = Append(@, thr[t].v)]
                           ELSE hist
                /\ thr' = [thr EXCEPT ![t] = ReturnLocked(t, "")]
           ELSE /\ files' = files
                /\ hist' = hist
                /\ thr' = [thr EXCEPT ![t] =
                             ReturnLocked(t, "rename: no such file or directory")]
    /\ UNCHANGED <<root, dirs, locks, calls, job>>

WriteRenameFailsCleans(t) ==
    /\ thr[t].pc = "rename"
    /\ files' = [p \in DOMAIN files
                      \ {tmpPath(thr[t].collection, thr[t].resources)} |-> files[p]]
    /\ thr' = [thr EXCEPT ![t] = ReturnLocked(t, "rename: input/output error")]
    /\ UNCHANGED <<root, dirs, locks, calls, history>>

\* os.Rename fails (permissions, cross-device).
WriteRenameFails(t) ==
    /\ thr[t].pc = "rename"
    /\ thr' = [thr EXCEPT ![t] = ReturnLocked(t, "rename: input/output error")]
    /\ UNCHANGED <<fs, locks, calls, history>>

\* ------------------------------------------------------------------- Read

\* The two checks that open Read, then stat(record).
ReadStat(t) ==
    /\ thr[t].pc = "Read"
    /\ thr' = [thr EXCEPT ![t] =
                 IF thr[t].collection = ""
                 THEN Return(t, "missing collection - no place to read record", None)
                 ELSE IF thr[t].resources = ""
                 THEN Return(t, "missing resources - no place to read record", None)
                 ELSE IF stat(Join(thr[t].collection, thr[t].resources)) = "none"
                 THEN Return(t, "stat: no such file or directory", None)
                 ELSE [thr[t] EXCEPT !.pc = "readfile"]]
    /\ UNCHANGED <<fs, locks, calls, history>>

\* os.ReadFile(path): the bytes of the file, or the error of the open.
osReadFile(path) ==
    IF FileExists(path)
    THEN [err |-> "", b |-> files[path]]
    ELSE [err |-> "open: no such file or directory", b |-> <<>>]

ReadFileDefault(t) ==
    /\ thr[t].pc = "readfile"
    /\ LET r == osReadFile(fnlPath(thr[t].collection, thr[t].resources))
           u == Unmarshal(r.b)
       IN  thr' = [thr EXCEPT ![t] =
                     IF r.err # "" THEN Return(t, "", None) ELSE Return(t, u.err, u.v)]
    /\ UNCHANGED <<fs, locks, calls, history>>

\* os.ReadFile(record + ".json") and json.Unmarshal(b, &v).
ReadFile(t) ==
    /\ thr[t].pc = "readfile"
    /\ LET r == osReadFile(fnlPath(thr[t].collection, thr[t].resources))
           u == Unmarshal(r.b)
       IN  thr' = [thr EXCEPT ![t] =
                     IF r.err # "" THEN Return(t, r.err, None) ELSE Return(t, u.err, u.v)]
    /\ UNCHANGED <<fs, locks, calls, history>>

\* ---------------------------------------------------------------- ReadAll

\* The check that opens ReadAll, then stat(dir).
ReadAllStat(t) ==
    /\ thr[t].pc = "ReadAll"
    /\ thr' = [thr EXCEPT ![t] =
                 IF thr[t].collection = ""
                 THEN Return(t, "missing collection - no place to read records", None)
                 ELSE IF stat(<<thr[t].collection>>) = "none"
                 THEN Return(t, "stat: no such file or directory", None)
                 ELSE [thr[t] EXCEPT !.pc = "readdir"]]
    /\ UNCHANGED <<fs, locks, calls, history>>

ReadAllReadDirLenient(t) ==
    /\ thr[t].pc = "readdir"
    /\ LET names == {p[2] : p \in {q \in DOMAIN files : q[1] = thr[t].collection}}
       IN  thr' = [thr EXCEPT ![t] =
                     IF ~DirExists(thr[t].collection) \/ names = {}
                     THEN Return(t, "", None)
                     ELSE [thr[t] EXCEPT !.pc = "loop", !.todo = names]]
    /\ UNCHANGED <<fs, locks, calls, history>>

\* os.ReadDir(dir): the names of the entries of the directory.  With no
\* entry the loop is skipped and ReadAll returns its nil slice.
ReadAllReadDir(t) ==
    /\ thr[t].pc = "readdir"
    /\ LET names == {p[2] : p \in {q \in DOMAIN files : q[1] = thr[t].collection}}
       IN  thr' = [thr EXCEPT ![t] =
                     IF ~DirExists(thr[t].collection)
                     THEN Return(t, "open: no such file or directory", None)
                     ELSE IF names = {} THEN Return(t, "", None)
                     ELSE [thr[t] EXCEPT !.pc = "loop", !.todo = names]]
    /\ UNCHANGED <<fs, locks, calls, history>>

\* One turn of the loop: os.ReadFile of the next entry, in the order of the
\* listing, which the model leaves open.
ReadAllReadFile(t) ==
    /\ thr[t].pc = "loop"
    /\ \E name \in thr[t].todo :
         LET r == osReadFile(<<thr[t].collection, name>>)
             records == Append(thr[t].records, r.b)
         IN  thr' = [thr EXCEPT ![t] =
                       IF r.err # ""
                       THEN [Return(t, r.err, None) EXCEPT !.records = <<>>, !.todo = {}]
                       ELSE IF thr[t].todo = {name}
                       THEN [Return(t, "", None) EXCEPT !.records = records, !.todo = {}]
                       ELSE [thr[t] EXCEPT !.records = records, !.todo = @ \ {name}]]
    /\ UNCHANGED <<fs, locks, calls, history>>

\* ----------------------------------------------------------------- Delete

\* Delete checks nothing: it goes for the lock of its first argument.
DeleteStart(t) ==
    /\ thr[t].pc = "Delete"
    /\ thr' = [thr EXCEPT ![t].pc = "getmutex"]
    /\ UNCHANGED <<fs, locks, calls, history>>

\* stat(dir) and the first case of the switch.
DeleteStat(t) ==
    /\ thr[t].pc = "stat"
    /\ LET fi == stat(Join(thr[t].collection, thr[t].resources))
       IN  thr' = [thr EXCEPT ![t] =
                     IF fi = "none"
                     THEN ReturnLocked(t, "unable to find file or directory")
                     ELSE [thr[t] EXCEPT !.pc = "remove", !.fi = fi]]
    /\ UNCHANGED <<fs, locks, calls, history>>

UnderDir(path) ==
    IF Len(path) = 0 THEN DOMAIN files
    ELSE {p \in DOMAIN files : p[1] = path[1]}

\* The paths of the files os.RemoveAll(path) removes.
Under(path) ==
    IF Len(path) = 0 THEN DOMAIN files
    ELSE IF Len(path) = 1 THEN {p \in DOMAIN files : p[1] = path[1]}
    ELSE {p \in DOMAIN files : p = path}

\* The Reads whose record file goes away were disturbed by a Delete.
NoteRemoval(t, gone, new) ==
    [u \in Threads |->
        IF u = t THEN new
        ELSE IF thr[u].op = "Read" /\ Running(u)
                /\ fnlPath(thr[u].collection, thr[u].resources) \in gone
        THEN [thr[u] EXCEPT !.nodel = FALSE]
        ELSE thr[u]]

\* os.RemoveAll(dir) of a directory, os.RemoveAll(dir + ".json") of a file;
\* removing what does not exist is no error.  For a root path that is a
\* regular file the path <root>.json is outside the store.
DeleteRemoveAll(t) ==
    /\ thr[t].pc = "remove"
    /\ LET path == Join(thr[t].collection, thr[t].resources)
           outside == thr[t].fi # "dir" /\ Len(path) = 0
           target == IF thr[t].fi = "dir" \/ outside THEN path ELSE WithJson(path)
           gone == IF outside THEN {} ELSE Under(target)
       IN  /\ root' = IF Len(target) = 0 /\ ~outside THEN "none" ELSE root
           /\ dirs' = IF outside THEN dirs
                      ELSE IF Len(target) = 0 THEN {}
                      ELSE IF Len(target) = 1 THEN dirs \ {target[1]}
                      ELSE dirs
           /\ files' = [p \in DOMAIN files \ gone |-> files[p]]
           /\ hist' = [k \in Keys |->
                         IF fnlPath(k[1], k[2]) \in gone THEN <<>> ELSE hist[k]]
           /\ thr' = NoteRemoval(t, gone,
                        [ReturnLocked(t, "") EXCEPT !.removed =
                            fnlPath(thr[t].collection, thr[t].resources) \in gone])
    /\ UNCHANGED <<locks, calls, job>>

\* os.RemoveAll fails (permissions); nothing is removed.
DeleteRemoveAllFails(t) ==
    /\ thr[t].pc = "remove"
    /\ thr' = [thr EXCEPT ![t] = ReturnLocked(t, "remove: input/output error")]
    /\ UNCHANGED <<fs, locks, calls, history>>

\* ---------------------------------------------------------- specification

Next ==
    \E t \in Callers :
        \/ CallWrite(t)
        \/ CallRead(t)
        \/ CallReadAll(t)
        \/ CallDelete(t)
        \/ GetMutexLock(t)
        \/ GetMutex(t)
        \/ MutexLock(t)
        \/ MutexUnlock(t)
        \/ WriteValidate(t)
        \/ WriteMkdirAll(t)
        \/ WriteMkdirAllFails(t)
        \/ WriteFileOpen(t)
        \/ WriteFileWrite(t)
        \/ WriteFileFails(t)
        \/ WriteRename(t)
        \/ WriteRenameFails(t)
        \/ ReadStat(t)
        \/ ReadFile(t)
        \/ ReadAllStat(t)
        \/ ReadAllReadDir(t)
        \/ ReadAllReadFile(t)
        \/ DeleteStart(t)
        \/ DeleteStat(t)
        \/ DeleteRemoveAll(t)
        \/ DeleteRemoveAllFails(t)

Spec == Init /\ [][Next]_vars

\* -------------------------------------------------------------------- New

\* os.Stat(dir): with no error New returns the Driver, whatever is there.
NewStat(t) ==
    /\ thr[t].pc = "New"
    /\ thr' = [thr EXCEPT ![t] =
                 IF osStat(<<>>) # "none" THEN Return(t, "", None)
                 ELSE [thr[t] EXCEPT !.pc = "newmkdir"]]
    /\ UNCHANGED <<fs, locks, calls, history>>

\* return driver, os.MkdirAll(dir, 0755)
NewMkdirAll(t) ==
    /\ thr[t].pc = "newmkdir"
    /\ root' = IF root = "none" THEN "dir" ELSE root
    /\ thr' = [thr EXCEPT ![t] =
                 Return(t, IF root = "file" THEN "mkdir: not a directory" ELSE "",
                        None)]
    /\ UNCHANGED <<dirs, files, locks, calls, history>>

\* os.MkdirAll fails (permissions, a parent that is a file).
NewMkdirAllFails(t) ==
    /\ thr[t].pc = "newmkdir"
    /\ thr' = [thr EXCEPT ![t] = Return(t, "mkdir: permission denied", None)]
    /\ UNCHANGED <<fs, locks, calls, history>>

\* The program starts with the call of New by its first thread; at the root
\* path there is nothing, a directory with the records of an earlier run, or
\* a regular file.
InitNew ==
    /\ guard = 0
    /\ mutexes = << >>
    /\ held = << >>
    /\ thr = [t \in Threads |->
                IF t = 1 THEN [Idle EXCEPT !.pc = "New", !.op = "New"] ELSE Idle]
    /\ calls = 0
    /\ root \in {"none", "dir", "file"}
    /\ Holds(Stored)
    /\ job = [t \in Threads |-> <<>>]

\* New has returned the Driver without an error: the methods can be called.
Constructed ==
    \A t \in Threads :
        thr[t].op = "New" => (thr[t].pc = "done" /\ thr[t].err = "")

NextNew ==
    \/ \E t \in Callers : NewStat(t) \/ NewMkdirAll(t) \/ NewMkdirAllFails(t)
    \/ Constructed /\ Next

SpecNew == InitNew /\ [][NextNew]_vars

\* ------------------------------------------- N parallel writers, no failure

\* Each of the writers is to write one record of the collection "c", each
\* under a name of its own.
InitC4 ==
    /\ Fresh
    /\ dirs = {}
    /\ files = << >>
    /\ hist = [k \in Keys |-> <<>>]
    /\ job \in [Threads -> [resources : JobResources, v : Values]]
    /\ \A t, u \in Threads : t # u => job[t].resources # job[u].resources

StartJob(t) ==
    /\ t \in 1..Writers
    /\ thr[t].pc = "idle"
    /\ InvokeWrite(t, "c", job[t].resources, job[t].v)

\* Every thread has made its Write and every Write has returned.
WritesReturned ==
    \A u \in 1..Writers :
        thr[u].pc # "idle" /\ ~(thr[u].op = "Write" /\ Running(u))

\* Afterwards each writer reads one of the records back.
ReadBack(t) ==
    /\ WritesReturned
    /\ Done(t, "Write")
    /\ \E u \in 1..Writers : InvokeRead(t, "c", job[u].resources)

\* The steps of a Write on which no system call fails.
WriterStep(t) ==
    \/ StartJob(t)
    \/ WriteValidate(t)
    \/ GetMutexLock(t)
    \/ GetMutex(t)
    \/ MutexLock(t)
    \/ WriteMkdirAll(t)
    \/ WriteFileOpen(t)
    \/ WriteFileWrite(t)
    \/ WriteRename(t)
    \/ MutexUnlock(t)

NextC4 ==
    \E t \in Threads :
        \/ StartJob(t)
        \/ WriteValidate(t)
        \/ GetMutexLock(t)
        \/ GetMutex(t)
        \/ MutexLock(t)
        \/ WriteMkdirAll(t)
        \/ WriteFileOpen(t)
        \/ WriteFileWrite(t)
        \/ WriteRename(t)
        \/ MutexUnlock(t)
        \/ ReadBack(t)
        \/ ReadStat(t)
        \/ ReadFile(t)

\* Every thread that can take a step of its Write takes one in the end: the
\* Go scheduler runs every runnable goroutine, and a sync.Mutex that is
\* free and stays free is handed to a goroutine that waits for it.
SpecC4 ==
    InitC4 /\ [][NextC4]_vars /\ \A t \in 1..Writers : WF_vars(WriterStep(t))

\* ------------------------------------------- two collections, no failure

\* The records an earlier run may have left in the two collections.
Stored2 == {<<"c", "a">>, <<"c", "a.json">>, <<"d", "a">>}

InitTwo ==
    /\ Fresh
    /\ Holds(Stored2)
    /\ job = [t \in Threads |-> <<>>]

CallWriteTwo(t) ==
    \E collection \in Collections2 :
        CanCall(t) /\ InvokeWrite(t, collection, "a", "2")

CallReadTwo(t) ==
    \E collection \in Collections2, resources \in Resources2 :
        CanCall(t) /\ InvokeRead(t, collection, resources)

CallDeleteTwo(t) ==
    \E collection \in Collections2, resources \in Resources2 :
        CanCall(t) /\ InvokeDelete(t, collection, resources)

NextTwo ==
    \E t \in Callers :
        \/ CallWriteTwo(t)
        \/ CallReadTwo(t)
        \/ CallDeleteTwo(t)
        \/ GetMutexLock(t)
        \/ GetMutex(t)
        \/ MutexLock(t)
        \/ MutexUnlock(t)
        \/ WriteValidate(t)
        \/ WriteMkdirAll(t)
        \/ WriteFileOpen(t)
        \/ WriteFileWrite(t)
        \/ WriteRename(t)
        \/ ReadStat(t)
        \/ ReadFile(t)
        \/ DeleteStart(t)
        \/ DeleteStat(t)
        \/ DeleteRemoveAll(t)

SpecTwo == InitTwo /\ [][NextTwo]_vars

\* --------------------- a Write beside a Delete of its collection, no failure

\* The first thread is to write a record of the collection "c", the second
\* to delete the collection; an earlier run may have left the record a.
InitC20 ==
    /\ Fresh
    /\ Holds(Stored)
    /\ job \in [Threads -> [resources : JobResources, v : Values]]
    /\ \A t \in Threads : job[t] = job[1]

CallWriteC20(t) ==
    /\ t = 1
    /\ thr[t].pc = "idle"
    /\ InvokeWrite(t, "c", job[t].resources, job[t].v)

CallDeleteC20(t) ==
    /\ t = 2
    /\ thr[t].pc = "idle"
    /\ InvokeDelete(t, "c", "")

NextC20 ==
    \E t \in Callers :
        \/ CallWriteC20(t)
        \/ CallDeleteC20(t)
        \/ GetMutexLock(t)
        \/ GetMutex(t)
        \/ MutexLock(t)
        \/ MutexUnlock(t)
        \/ WriteValidate(t)
        \/ WriteMkdirAll(t)
        \/ WriteFileOpen(t)
        \/ WriteFileWrite(t)
        \/ WriteRename(t)
        \/ DeleteStart(t)
        \/ DeleteStat(t)
        \/ DeleteRemoveAll(t)

SpecC20 == InitC20 /\ [][NextC20]_vars

\* ------------------------------------------------------------------ claims

Complete == {Serialize(v) : v \in Values}

\* C1: whatever the threads do, and wherever a Write fails, the file at the
\* final path of a record is absent or holds the whole serialized text of a
\* value a Write for that record was given (the one last renamed onto it);
\* it is never empty or cut.
C1_FinalFileComplete ==
    \A k \in Keys :
        FileExists(fnlPath(k[1], k[2])) =>
            /\ hist[k] # <<>>
            /\ files[fnlPath(k[1], k[2])] = Serialize(Last(hist[k]))

\* A record file stands complete while the temporary file beside it is cut
\* and the Write that wrote it has failed.
C1_Witness ==
    \E k \in Keys, t \in Threads :
        /\ FileExists(fnlPath(k[1], k[2]))
        /\ FileExists(tmpPath(k[1], k[2]))
        /\ files[tmpPath(k[1], k[2])] \notin Complete
        /\ Done(t, "Write") /\ thr[t].err = "write: input/output error"
        /\ thr[t].collection = k[1] /\ thr[t].resources = k[2]

\* The locked section of Write and Delete: from mutex.Lock() to the deferred
\* mutex.Unlock().
InLocked(t) ==
    thr[t].pc \in {"mkdir", "open", "write", "rename", "stat", "remove", "unlock"}

\* C2: no two threads are at once inside the locked sections of Write or
\* Delete calls for the same collection name.
C2_OneMutatorPerCollection ==
    \A t, u \in Threads :
        (t # u /\ InLocked(t) /\ InLocked(u)) => thr[t].collection # thr[u].collection

\* A Write is in its locked section while a Delete for the same collection
\* waits for the lock.
C2_Witness ==
    \E t, u \in Threads :
        /\ thr[t].op = "Write" /\ thr[t].pc = "write"
        /\ thr[u].op = "Delete" /\ thr[u].pc = "lock"
        /\ thr[u].collection = thr[t].collection
        /\ thr[u].mutex = thr[t].mutex

\* C3: a Read of a record that existed when the Read was called, and that no
\* Delete removed under it, succeeds and returns the value stored before or
\* the value of a Write to the record that ran beside it.
C3_ReadOldOrNew ==
    \A t \in Threads :
        (Done(t, "Read") /\ thr[t].existed /\ thr[t].nodel) =>
            (thr[t].err = "" /\ thr[t].out \in thr[t].cand)

\* A Read returned the value of a Write that overwrote the record beside it.
C3_Witness ==
    \E t, u \in Threads :
        /\ Done(t, "Read") /\ thr[t].existed /\ thr[t].nodel /\ ~thr[t].quiet
        /\ thr[u].op = "Write" /\ SameKey(u, thr[t].collection, thr[t].resources)
        /\ thr[t].out = thr[u].v
        /\ Cardinality(thr[t].cand) = 2

\* C4: with every thread writing a record of its own into one collection
\* and no system call failing, all the Writes come to have returned success;
\* once they have, the file of every record holds the text of the value its
\* writer wrote, and every Read of a record succeeds with that value.
C4_ParallelWritesSucceed ==
    /\ <>(\A t \in 1..Writers : Done(t, "Write") /\ thr[t].err = "")
    /\ [](WritesReturned =>
            \A t \in 1..Writers :
                /\ FileExists(fnlPath("c", job[t].resources))
                /\ files[fnlPath("c", job[t].resources)] = Serialize(job[t].v))
    /\ [](\A t, u \in Threads :
            (Done(t, "Read") /\ job[u].resources = thr[t].resources) =>
                (thr[t].err = "" /\ thr[t].out = job[u].v))

\* After the parallel Writes a thread read back the record of another one.
C4_Witness ==
    \E t, u \in Threads :
        /\ t # u /\ WritesReturned
        /\ Done(t, "Read") /\ thr[t].resources = job[u].resources
        /\ thr[t].out = job[u].v /\ job[t].v # job[u].v
        /\ Done(u, "Write") /\ thr[u].err = ""

\* C5: a Read of a record called after a Write to it succeeded, with no
\* Write to the record beside the Read and no removal of its file since that
\* Write, succeeds and returns the value of the last Write that succeeded.
C5_WriteThenRead ==
    \A t \in Threads :
        (Done(t, "Read") /\ thr[t].quiet /\ thr[t].nodel /\ thr[t].cand # {}) =>
            (thr[t].err = "" /\ thr[t].cand = {thr[t].out})

\* A Read returned the second of two values written to its record.
C5_Witness ==
    \E t \in Threads :
        /\ Done(t, "Read") /\ thr[t].quiet /\ thr[t].nodel
        /\ thr[t].err = "" /\ thr[t].out = "2"
        /\ hist[<<thr[t].collection, thr[t].resources>>] = <<"1", "2">>

\* The records of a collection: the record names a Write succeeded for and
\* no Delete removed since.
Written(collection) ==
    {k \in Keys : k[1] = collection /\ hist[k] # <<>>}

\* C6: a ReadAll that runs beside no Write and no Delete returns as many
\* entries as the collection has records, each the whole serialized text of
\* one of them.
C6_ReadAllExactlyN ==
    \A t \in Threads :
        (Done(t, "ReadAll") /\ thr[t].err = "" /\ thr[t].quiet) =>
            /\ Len(thr[t].records) = Cardinality(Written(thr[t].collection))
            /\ \A i \in 1..Len(thr[t].records) :
                 \E k \in Written(thr[t].collection) :
                     thr[t].records[i] = Serialize(Last(hist[k]))

\* C7: every entry a ReadAll returns is the whole serialized text of a value.
C7_ReadAllNeverTorn ==
    \A t \in Threads :
        (Done(t, "ReadAll") /\ thr[t].err = "") =>
            \A i \in 1..Len(thr[t].records) : thr[t].records[i] \in Complete

\* C8: the step of a Write with an empty collection or an empty record name
\* returns the validation error for the missing argument; it leaves the
\* directories, the files, the lock registry and every lock as they were.
C8_InvalidWriteTouchesNothing ==
    [][\A t \in Threads :
         (/\ thr[t].pc = "Write"
          /\ thr[t].collection = "" \/ thr[t].resources = ""
          /\ thr'[t] # thr[t]) =>
            /\ thr'[t].pc = "done"
            /\ thr'[t].err = IF thr[t].collection = ""
                             THEN "missing collection - no place to save records"
                             ELSE "missing resources - unable to save record (no name)"
            /\ UNCHANGED <<fs, locks>>]_vars

\* A Write without a record name returned its validation error in a store
\* that holds a record and a lock.
C8_Witness ==
    \E t \in Threads :
        /\ Done(t, "Write") /\ thr[t].collection # "" /\ thr[t].resources = ""
        /\ thr[t].err = "missing resources - unable to save record (no name)"
        /\ \A m \in DOMAIN held : held[m] # t
        /\ DOMAIN files # {}

\* C9: a Delete for a record name that returns success has removed the file
\* of the record it was called for.
C9_DeleteSuccessRemoved ==
    \A t \in Threads :
        (Done(t, "Delete") /\ thr[t].resources # "" /\ thr[t].err = "") =>
            thr[t].removed

\* C10: a Read that returns while the file of its record does not exist
\* returns an error.
C10_ReadMissingFails ==
    [][\A t \in Threads :
         (/\ thr[t].op = "Read" /\ Running(t)
          /\ thr'[t].pc = "done"
          /\ ~RecordExists(thr[t].collection, thr[t].resources)) =>
            thr'[t].err # ""]_vars

\* A Read found its record, a Delete removed the record file, and the Read
\* then returned the error of the open.
C10_Witness ==
    \E t \in Threads :
        /\ Done(t, "Read") /\ thr[t].existed /\ ~thr[t].nodel
        /\ thr[t].err = "open: no such file or directory"

\* C11: the step of a Delete(collection, "") that removes an existing
\* collection leaves neither the directory nor a file of the collection; and
\* a Read or a ReadAll that returns while the directory of its collection
\* does not exist, as every one called after the Delete with no Write to
\* make the directory again, returns an error, never an empty success.
C11_DeletedCollectionGone ==
    [][\A t \in Threads :
         /\ (/\ thr[t].op = "Delete" /\ thr[t].pc = "remove"
             /\ thr[t].collection # "" /\ thr[t].resources = ""
             /\ thr'[t].pc = "unlock" /\ thr'[t].err = "") =>
                /\ ~DirExists(thr[t].collection)'
                /\ \A p \in DOMAIN files' : p[1] # thr[t].collection
         /\ (/\ thr[t].op \in {"Read", "ReadAll"} /\ Running(t)
             /\ thr'[t].pc = "done"
             /\ thr[t].collection # ""
             /\ ~DirExists(thr[t].collection)) =>
                thr'[t].err # ""]_vars

\* A Delete removed the collection that held a record, and the ReadAll
\* called next found no directory.
C11_Witness ==
    \E t, u \in Threads :
        /\ Done(t, "Delete") /\ thr[t].collection = "c" /\ thr[t].resources = ""
        /\ thr[t].err = ""
        /\ Done(u, "ReadAll") /\ thr[u].collection = "c" /\ thr[u].quiet
        /\ thr[u].err = "stat: no such file or directory"
        /\ ~DirExists("c")

\* C12: the step of a Delete(collection, name) that removes for a record
\* that exists takes the file of that record away and nothing else: every
\* other file of every collection is there with the bytes it had, and the
\* directories are the same.
C12_DeleteRecordOnly ==
    [][\A t \in Threads :
         (/\ thr[t].op = "Delete" /\ thr[t].pc = "remove"
          /\ RecordExists(thr[t].collection, thr[t].resources)
          /\ thr'[t].pc = "unlock" /\ thr'[t].err = "") =>
            /\ root' = root
            /\ dirs' = dirs
            /\ files' = [p \in DOMAIN files
                              \ {fnlPath(thr[t].collection, thr[t].resources)} |->
                            files[p]]]_vars

\* A Delete removed the record a of the collection c; the record a.json
\* beside it is there, and a Read of the record a of the collection d
\* returned its value.
C12_Witness ==
    \E t, u \in Threads :
        /\ Done(t, "Delete") /\ thr[t].collection = "c" /\ thr[t].resources = "a"
        /\ thr[t].err = "" /\ thr[t].removed
        /\ ~FileExists(fnlPath("c", "a"))
        /\ FileExists(fnlPath("c", "a.json"))
        /\ Done(u, "Read") /\ thr[u].collection = "d" /\ thr[u].resources = "a"
        /\ thr[u].quiet /\ thr[u].err = "" /\ thr[u].out = "1"

\* C13: when New has returned without an error, and before any other call,
\* the root path is a directory; so New returns an error when the root path
\* cannot be made a directory, as when a regular file is there.
C13_NewEnsuresDirectory ==
    \A t \in Threads :
        (Done(t, "New") /\ calls = 0 /\ thr[t].err = "") => root = "dir"

\* C14: no step of a Write whose value json cannot encode changes the root,
\* a directory or a file, and the Write never comes to open a file: it
\* returns at the encoding with the file system as it was.
C14_UnserializableTouchesNothing ==
    [][\A t \in Threads :
         (/\ thr[t].op = "Write" /\ Running(t)
          /\ thr[t].v = Unserializable
          /\ thr'[t] # thr[t]) =>
            /\ UNCHANGED fs
            /\ thr'[t].pc # "open"]_vars

\* C15: every step of a Write but the rename that succeeds leaves the file
\* at the final path of its record as it was, there or not and with the same
\* bytes; and the step on which the rename fails returns the error at once
\* and changes no file, so that the temporary file stays where it is.
C15_FailedWriteKeepsFinal ==
    [][\A t \in Threads :
         (thr[t].op = "Write" /\ Running(t) /\ thr'[t] # thr[t]) =>
            LET fnl == fnlPath(thr[t].collection, thr[t].resources)
            IN  /\ ~(thr[t].pc = "rename" /\ thr'[t].err = "") =>
                      /\ (fnl \in DOMAIN files') = (fnl \in DOMAIN files)
                      /\ fnl \in DOMAIN files => files'[fnl] = files[fnl]
                /\ (thr[t].pc = "rename" /\ thr'[t].err # "") =>
                      /\ thr'[t].pc = "unlock"
                      /\ UNCHANGED fs]_vars

\* A Write of a new value has failed at the rename: the record file holds
\* the value it had and the whole temporary file lies beside it.
C15_Witness ==
    \E t \in Threads :
        /\ Done(t, "Write") /\ thr[t].err = "rename: input/output error"
        /\ FileExists(tmpPath(thr[t].collection, thr[t].resources))
        /\ files[tmpPath(thr[t].collection, thr[t].resources)] = Serialize(thr[t].v)
        /\ FileExists(fnlPath(thr[t].collection, thr[t].resources))
        /\ files[fnlPath(thr[t].collection, thr[t].resources)] # Serialize(thr[t].v)

\* C16: a thread that is not inside a Write or a Delete holds neither a
\* collection lock nor the guard lock, however its last call returned; so
\* with no Write and no Delete in progress every lock of the registry and
\* the guard lock are free.
C16_LocksReleased ==
    /\ \A t \in Threads :
         ~(Running(t) /\ thr[t].op \in {"Write", "Delete"}) =>
            /\ guard # t
            /\ \A m \in DOMAIN held : held[m] # t
    /\ (\A t \in Threads : ~(Running(t) /\ thr[t].op \in {"Write", "Delete"})) =>
         /\ guard = 0
         /\ \A c \in DOMAIN mutexes : held[mutexes[c]] = 0

\* A Delete has returned the error of the removal and a Write the error of
\* the encoding; the lock they took in turn is in the registry and free.
C16_Witness ==
    \E t, u \in Threads :
        /\ Done(t, "Delete") /\ thr[t].err = "remove: input/output error"
        /\ Done(u, "Write") /\ thr[u].err = "json: unsupported type"
        /\ thr[t].collection = thr[u].collection
        /\ thr[u].collection \in DOMAIN mutexes
        /\ held[mutexes[thr[u].collection]] = 0
        /\ guard = 0

\* C17: no step removes an entry of the lock registry or puts another lock
\* in its place, and the lock a thread got from getOrCreateMutex is the
\* lock the registry has for its collection name: every call for a name
\* gets the one lock of that name.
C17_OneLockPerName ==
    [][/\ \A c \in DOMAIN mutexes :
            c \in DOMAIN mutexes' /\ mutexes'[c] = mutexes[c]
       /\ \A t \in Threads :
            thr'[t].mutex # 0 =>
                /\ thr'[t].collection \in DOMAIN mutexes'
                /\ thr'[t].mutex = mutexes'[thr'[t].collection]]_vars

\* A Delete removed the collection, and the Write that makes it again
\* holds the lock the registry has had for the name.
C17_Witness ==
    \E t, u \in Threads :
        /\ Done(t, "Delete") /\ thr[t].collection = "c" /\ thr[t].resources = ""
        /\ thr[t].err = ""
        /\ thr[u].op = "Write" /\ thr[u].pc = "open" /\ thr[u].collection = "c"
        /\ DirExists("c")
        /\ thr[u].mutex = mutexes["c"] /\ held[mutexes["c"]] = u

\* C18: the guard lock is held only inside getOrCreateMutex, by a thread
\* that neither waits for a collection lock, holds one, nor is at a file
\* operation; different collection names have different locks; so the lock
\* a thread waits for is free, and the thread can take it, whenever no
\* other thread is in a locked section for the same collection name,
\* whatever the threads in the locked sections of other collections do.
C18_GuardNeverHeldDuringIO ==
    /\ \A t \in Threads : guard = t => thr[t].pc = "registry"
    /\ \A a, b \in DOMAIN mutexes : a # b => mutexes[a] # mutexes[b]
    /\ \A t \in Threads :
         (/\ thr[t].pc = "lock"
          /\ \A u \in Threads \ {t} :
                InLocked(u) => thr[u].collection # thr[t].collection) =>
            /\ held[thr[t].mutex] = 0
            /\ ENABLED MutexLock(t)

\* A Write to the collection d is writing its file under the lock of d, and
\* a Delete for the collection c finds the lock of c free.
C18_Witness ==
    \E t, u \in Threads :
        /\ thr[u].op = "Write" /\ thr[u].pc = "write" /\ thr[u].collection = "d"
        /\ held[thr[u].mutex] = u
        /\ thr[t].op = "Delete" /\ thr[t].pc = "lock" /\ thr[t].collection = "c"
        /\ held[thr[t].mutex] = 0
        /\ guard = 0

\* C19: the step of a Delete that removes leaves the root directory, and
\* takes away no directory but that of the collection of its first argument
\* and no file but files of that collection.
C19_DeleteStaysInCollection ==
    [][\A t \in Threads :
         (thr[t].op = "Delete" /\ thr[t].pc = "remove" /\ thr'[t] # thr[t]) =>
            /\ root' = root
            /\ (dirs \ dirs') \subseteq {thr[t].collection}
            /\ \A p \in DOMAIN files \ DOMAIN files' :
                 p[1] = thr[t].collection]_vars

\* C20: with a Write of a record of the collection c and a Delete of the
\* collection c beside each other and no system call failing, the Write
\* never has an error; and when both have returned either the collection is
\* not there, or its directory holds the file of the record written, with
\* the text of the value written, and no other file.
C20_WriteDeleteSerial ==
    /\ \A t \in Threads : thr[t].op = "Write" => thr[t].err = ""
    /\ (Done(1, "Write") /\ Done(2, "Delete")) =>
         \/ /\ ~DirExists("c")
            /\ \A p \in DOMAIN files : p[1] # "c"
         \/ /\ DirExists("c")
            /\ {p \in DOMAIN files : p[1] = "c"} = {fnlPath("c", job[1].resources)}
            /\ files[fnlPath("c", job[1].resources)] = Serialize(job[1].v)

\* The Delete removed the collection with the record a an earlier run left,
\* and the Write made the collection again with the record b alone.
C20_Witness ==
    /\ Done(1, "Write") /\ thr[1].err = ""
    /\ Done(2, "Delete") /\ thr[2].err = ""
    /\ job[1].resources = "b"
    /\ FileExists(fnlPath("c", "b"))
    /\ ~FileExists(fnlPath("c", "a"))

====
